---- MODULE Spec2Model ----
(***************************************************************************)
(* The intervention chain of src/observability (traits.rs) and its         *)
(* built-in handlers (handlers.rs): TripwireHandler, SingleActionHandler,  *)
(* DepthGuardHandler and ConvergenceDetector.                              *)
(*                                                                         *)
(* Strings are sequences of atoms.  An atom is a whitespace character, a   *)
(* single letter, or (for the fixed warning text only) a whole word.       *)
(* u32 values are pairs of 16-bit limbs [hi, lo], value hi * 2^16 + lo, so *)
(* that the counter keeps its 32-bit width.                                *)
(***************************************************************************)
EXTENDS Integers, Sequences, FiniteSets, TLC

\* ------------------------------------------------------------------------
\* Bounds of the model
\* ------------------------------------------------------------------------
MaxChain == 3        \* handlers added to a chain
MaxProcess == 2      \* process calls made on one chain
NumThreads == 2      \* concurrent callers of one shared SingleActionHandler
MaxLimit == 2        \* largest max_per_turn tried
MaxCalls == 4        \* intercept calls started on the shared handler
MaxResets == 1       \* reset() calls on the shared handler
WrapWindow == 2      \* how far below 2^32 - 1 the wrap-around runs start
MaxAgents == 3       \* delegates the orchestrator may spawn
MaxInvocations == 4  \* messages the orchestrator's agents send through the chain
MaxConvCalls == 3    \* intercept calls started on the shared ConvergenceDetector
MaxConvResets == 1   \* reset() calls on the shared ConvergenceDetector
MaxPatterns == 3     \* pattern strings a TripwireHandler is configured with
MaxScans == 2        \* intercept calls made on one TripwireHandler
MaxRuns == 3         \* process calls of the repeated-run scenario
MaxWords == 4        \* words of a string given to jaccard_trigrams

\* ------------------------------------------------------------------------
\* u32 (AtomicU32 / u32), as two 16-bit limbs
\* ------------------------------------------------------------------------
LimbMod == 65536

U32(n) == [hi |-> n \div LimbMod, lo |-> n % LimbMod]

U32Max == [hi |-> LimbMod - 1, lo |-> LimbMod - 1]

\* wrapping_add(1): what fetch_add stores
U32WrappingInc(c) ==
    IF c.lo + 1 < LimbMod THEN [hi |-> c.hi, lo |-> c.lo + 1]
    ELSE [hi |-> (c.hi + 1) % LimbMod, lo |-> 0]

U32Ge(a, b) == a.hi > b.hi \/ (a.hi = b.hi /\ a.lo >= b.lo)

\* ------------------------------------------------------------------------
\* Option<T>
\* ------------------------------------------------------------------------
None == [some |-> FALSE]
Some(v) == [some |-> TRUE, value |-> v]

\* ------------------------------------------------------------------------
\* InterventionVerdict, MessageDirection, InterventionContext
\* ------------------------------------------------------------------------
Allow == [tag |-> "Allow"]
Modify(text) == [tag |-> "Modify", text |-> text]
Drop(reason) == [tag |-> "Drop", reason |-> reason]
Halt(reason) == [tag |-> "Halt", reason |-> reason]

\* The outcome of a call that unwinds instead of returning a verdict.
Panic == [tag |-> "Panic"]

MessageDirection ==
    {"Inbound", "OutboundRequest", "InboundResponse",
     "ToolInvocation", "ToolResult", "OutboundResponse"}

InterventionContext(direction, agent_id, tool_name) ==
    [direction |-> direction, agent_id |-> agent_id, tool_name |-> tool_name,
     provider |-> None, model |-> None]

\* ------------------------------------------------------------------------
\* Strings
\* ------------------------------------------------------------------------
IsWhitespace(a) == a \in {" ", "\n", "\t"}

\* str::split_whitespace: the maximal runs of non-whitespace atoms, in order
RECURSIVE SplitFrom(_, _, _, _)
SplitFrom(s, i, word, acc) ==
    IF i > Len(s) THEN (IF word = <<>> THEN acc ELSE Append(acc, word))
    ELSE IF IsWhitespace(s[i])
         THEN SplitFrom(s, i + 1, <<>>, IF word = <<>> THEN acc ELSE Append(acc, word))
         ELSE SplitFrom(s, i + 1, Append(word, s[i]), acc)

split_whitespace(s) == SplitFrom(s, 1, <<>>, <<>>)

\* [&str]::join(" ")
RECURSIVE join(_)
join(words) ==
    IF words = <<>> THEN <<>>
    ELSE IF Len(words) = 1 THEN words[1]
    ELSE words[1] \o <<" ">> \o join(Tail(words))

\* s.contains(p) for a literal p: some window of s equals p
Contains(s, p) ==
    \E i \in 1..(Len(s) - Len(p) + 1) : SubSeq(s, i, i + Len(p) - 1) = p

\* char::to_uppercase on the atoms the model uses; every other atom has no
\* lowercase letter in it
UpperTable ==
    <<<<"a", "A">>, <<"b", "B">>, <<"c", "C">>, <<"d", "D">>, <<"h", "H">>,
      <<"i", "I">>, <<"n", "N">>, <<"o", "O">>, <<"r", "R">>, <<"m", "M">>,
      <<"WARNING:", "WARNING:">>, <<"This", "THIS">>, <<"delegate", "DELEGATE">>,
      <<"response", "RESPONSE">>, <<"has", "HAS">>, <<"similarity", "SIMILARITY">>,
      <<"with", "WITH">>, <<"prior", "PRIOR">>, <<"response.", "RESPONSE.">>,
      <<"Unanimous", "UNANIMOUS">>, <<"agreement", "AGREEMENT">>, <<"is", "IS">>,
      <<"failure", "FAILURE">>, <<"signal.", "SIGNAL.">>,
      <<"Re-examine", "RE-EXAMINE">>, <<"explicit", "EXPLICIT">>,
      <<"skepticism.]", "SKEPTICISM.]">> >>

ToUpperAtom(a) ==
    IF \E k \in 1..Len(UpperTable) : UpperTable[k][1] = a
    THEN UpperTable[CHOOSE k \in 1..Len(UpperTable) : UpperTable[k][1] = a][2]
    ELSE a

to_uppercase(s) == [k \in 1..Len(s) |-> ToUpperAtom(s[k])]

\* ------------------------------------------------------------------------
\* TripwireHandler
\* ------------------------------------------------------------------------
\* Regex::new(p) is Ok for the patterns of the model unless p opens a
\* character class it never closes (the "[invalid" of the tests).
RegexCompiles(p) ==
    ~ \E i \in 1..Len(p) : p[i] = "[" /\ \A j \in (i + 1)..Len(p) : p[j] # "]"

\* Regex::is_match for a compiled pattern of literal atoms: unanchored search
is_match(pattern, content) == Contains(content, pattern)

\* faulty variant: the strings that do not compile are kept
from_stringsKeepAll(patterns) == patterns

\* the strings that compile, in their order; the others are skipped
from_strings(patterns) == SelectSeq(patterns, RegexCompiles)

RECURSIVE TripwireScan(_, _, _)
TripwireScan(patterns, k, content) ==
    IF k > Len(patterns) THEN Allow
    ELSE IF is_match(patterns[k], content)
         THEN Halt([handler |-> "tripwire", pattern |-> patterns[k]])
         ELSE TripwireScan(patterns, k + 1, content)

\* faulty variant: only tool invocations are scanned
TripwireInterceptToolsOnly(patterns, content, ctx) ==
    IF ctx.direction = "ToolInvocation" THEN TripwireScan(patterns, 1, content)
    ELSE Allow

TripwireIntercept(patterns, content, ctx) == TripwireScan(patterns, 1, content)

\* ------------------------------------------------------------------------
\* SingleActionHandler
\* ------------------------------------------------------------------------
\* faulty variant: every direction is counted
SAEnforcedAlways(ctx) == TRUE

\* the early return: only tool invocations are enforced
SAEnforced(ctx) == ctx.direction = "ToolInvocation"

\* faulty variant: the counter is read but the increment is lost
fetch_addLoadOnly(calls) == [prev |-> calls, next |-> calls]

\* AtomicU32::fetch_add(1, SeqCst): one indivisible read-modify-write that
\* wraps around on overflow
fetch_add(calls) == [prev |-> calls, next |-> U32WrappingInc(calls)]

\* `count + 1` in the Drop message is u32 addition: at count = u32::MAX it
\* count(): `self.calls_this_turn.load(SeqCst)`
load(calls) == calls

\* panics when the build checks overflow and wraps to 0 when it does not
AttemptOverflows(count, checks) == count = U32Max /\ checks

\* faulty variant: `>` for `>=`: one call too many is allowed
SAVerdictOffByOne(count, limit, checks) ==
    IF U32Ge(count, limit) /\ count # limit
    THEN Drop([handler |-> "single-action", max |-> limit,
               attempted |-> U32WrappingInc(count)])
    ELSE Allow

SAVerdict(count, limit, checks) ==
    IF U32Ge(count, limit)
    THEN IF AttemptOverflows(count, checks)
         THEN Panic
         ELSE Drop([handler |-> "single-action", max |-> limit,
                    attempted |-> U32WrappingInc(count)])
    ELSE Allow

\* intercept as one indivisible call (a single caller)
SingleActionIntercept(calls, limit, ctx, checks) ==
    IF ~SAEnforced(ctx)
    THEN [verdict |-> Allow, calls |-> calls]
    ELSE [verdict |-> SAVerdict(fetch_add(calls).prev, limit, checks),
          calls |-> fetch_add(calls).next]

\* ------------------------------------------------------------------------
\* DepthGuardHandler
\* ------------------------------------------------------------------------
\* faulty variant: the identity of the caller is not looked at
DepthGuardNoIdentity(content, ctx) ==
    IF ctx.direction # "ToolInvocation" THEN Allow
    ELSE IF ctx.tool_name.some /\ ctx.tool_name.value = "delegate"
         THEN Drop([handler |-> "depth-guard",
                    agent |-> IF ctx.agent_id.some THEN ctx.agent_id.value ELSE ""])
         ELSE Allow

\* faulty variant: the tool name is compared with a name no tool has
DepthGuardWrongTool(content, ctx) ==
    IF ctx.direction # "ToolInvocation" THEN Allow
    ELSE IF ctx.agent_id.some
              /\ ctx.tool_name.some
              /\ ctx.tool_name.value = "delegation"
         THEN Drop([handler |-> "depth-guard", agent |-> ctx.agent_id.value])
         ELSE Allow

DepthGuardIntercept(content, ctx) ==
    IF ctx.direction # "ToolInvocation" THEN Allow
    ELSE IF ctx.agent_id.some
              /\ ctx.tool_name.some
              /\ ctx.tool_name.value = "delegate"
         THEN Drop([handler |-> "depth-guard", agent |-> ctx.agent_id.value])
         ELSE Allow

\* ------------------------------------------------------------------------
\* ConvergenceDetector
\* ------------------------------------------------------------------------
\* f64 values the detector handles are ratios of small naturals [num, den]
Ratio(num, den) == [num |-> num, den |-> den]

RatioGe(x, y) == x.num * y.den >= y.num * x.den

\* faulty variant: the threshold is stored as given
clampNone(t) == t

\* f64::clamp(0.0, 1.0)
clamp01(t) ==
    IF t.num < 0 THEN Ratio(0, 1)
    ELSE IF t.num > t.den THEN Ratio(1, 1)
    ELSE t

\* faulty variant: three-word runs only, also of a string of one or two words
trigramsRunsOnly(s) ==
    LET words == split_whitespace(s) IN
    {join(SubSeq(words, k, k + 2)) : k \in 1..(Len(words) - 2)}

\* the closure `trigrams` of jaccard_trigrams
trigrams(s) ==
    LET words == split_whitespace(s) IN
    IF Len(words) < 3
    THEN {words[k] : k \in 1..Len(words)}
    ELSE {join(SubSeq(words, k, k + 2)) : k \in 1..(Len(words) - 2)}

\* faulty variant: the share of the first string's set found in the second
jaccard_trigramsOfFirst(a, b) ==
    LET a_set == trigrams(a)
        b_set == trigrams(b)
    IN  IF a_set = {} /\ b_set = {} THEN Ratio(1, 1)
        ELSE IF a_set = {} THEN Ratio(0, 1)
        ELSE Ratio(Cardinality(a_set \cap b_set), Cardinality(a_set))

\* the `return` of jaccard_trigrams a call leaves by
jaccard_return(a, b) ==
    LET a_set == trigrams(a)
        b_set == trigrams(b)
        union == Cardinality(a_set \cup b_set)
    IN  IF a_set = {} /\ b_set = {} THEN "both_empty"
        ELSE IF union = 0 THEN "union_zero"
        ELSE "division"

jaccard_trigrams(a, b) ==
    LET a_set == trigrams(a)
        b_set == trigrams(b)
        intersection == Cardinality(a_set \cap b_set)
        union == Cardinality(a_set \cup b_set)
    IN  IF a_set = {} /\ b_set = {} THEN Ratio(1, 1)
        ELSE IF union = 0 THEN Ratio(0, 1)
        ELSE Ratio(intersection, union)

RECURSIVE ConvergenceScan(_, _, _, _)
ConvergenceScan(outputs, k, threshold, new_output) ==
    IF k > Len(outputs) THEN None
    ELSE IF RatioGe(jaccard_trigrams(outputs[k], new_output), threshold)
         THEN Some(jaccard_trigrams(outputs[k], new_output))
         ELSE ConvergenceScan(outputs, k + 1, threshold, new_output)

\* faulty variant: the greatest similarity that reaches the threshold
check_convergenceMax(outputs, threshold, new_output) ==
    LET sim(k) == jaccard_trigrams(outputs[k], new_output)
        hits == {k \in 1..Len(outputs) : RatioGe(sim(k), threshold)}
    IN  IF hits = {} THEN None
        ELSE Some(sim(CHOOSE k \in hits : \A j \in hits : RatioGe(sim(k), sim(j))))

\* check_convergence: one critical section over the history
check_convergence(outputs, threshold, new_output) ==
    ConvergenceScan(outputs, 1, threshold, new_output)

\* format!("{:.0}", similarity * 100.0): nearest integer, ties to even
FormatPct0(sim) ==
    LET q == (100 * sim.num) \div sim.den
        r == (100 * sim.num) % sim.den
    IN  IF 2 * r > sim.den THEN q + 1
        ELSE IF 2 * r < sim.den THEN q
        ELSE IF q % 2 = 0 THEN q ELSE q + 1

\* the warning block that is put in front of the content
WarningText(sim) ==
    <<"[CONVERGENCE", " ", "WARNING:", " ", "This", " ", "delegate", " ",
      "response", " ", "has", " ", ToString(FormatPct0(sim)) \o "%", " ",
      "similarity", " ", "with", " ", "a", " ", "prior", " ", "delegate", " ",
      "response.", " ", "Unanimous", " ", "agreement", " ", "is", " ", "a", " ",
      "failure", " ", "signal.", " ", "Re-examine", " ", "with", " ",
      "explicit", " ", "skepticism.]", "\n", "\n">>

\* faulty variant: the tool name is not looked at
ConvergenceQualifiesAnyTool(ctx) == ctx.direction = "ToolResult"

\* the two early returns: only ToolResult messages of the tool "delegate"
ConvergenceQualifies(ctx) ==
    /\ ctx.direction = "ToolResult"
    /\ ctx.tool_name = Some("delegate")

\* faulty variant: the warning replaces the content instead of preceding it
ConvergenceVerdictWarningOnly(found, content) ==
    IF found.some THEN Modify(WarningText(found.value)) ELSE Allow

\* the two arms of `if let Some(similarity) = self.check_convergence(content)`
ConvergenceVerdict(found, content) ==
    IF found.some THEN Modify(WarningText(found.value) \o content) ELSE Allow

\* faulty variant: nothing is recorded
pushNothing(v, x) == v

\* faulty variant: the history holds the latest output only
pushReplacing(v, x) == <<x>>

\* Vec::push
push(v, x) == Append(v, x)

\* intercept as one indivisible call (a single caller)
ConvergenceIntercept(outputs, threshold, content, ctx) ==
    IF ~ConvergenceQualifies(ctx)
    THEN [verdict |-> Allow, outputs |-> outputs]
    ELSE LET found == check_convergence(outputs, threshold, content) IN
         [verdict |-> ConvergenceVerdict(found, content),
          outputs |-> push(outputs, content)]

\* faulty variant: the history survives reset()
clearNothing(v) == v

\* Vec::clear
clear(v) == <<>>

\* ------------------------------------------------------------------------
\* Handlers as the chain holds them (Box<dyn InterventionHandler>)
\* ------------------------------------------------------------------------
NoopInterventionHandler == [name |-> "noop"]
DropH(reason) == [name |-> "drop", reason |-> reason]
UpperH == [name |-> "upper"]
TripwireHandler(patterns) == [name |-> "tripwire", patterns |-> patterns]
SingleActionHandler(max_per_turn) ==
    [name |-> "single-action", max_per_turn |-> max_per_turn]
DepthGuardHandler == [name |-> "depth-guard"]
ConvergenceDetector(threshold) ==
    [name |-> "convergence-detector", threshold |-> clamp01(threshold)]

\* the mutable state a handler owns: SingleActionHandler's counter and
\* ConvergenceDetector's history (unused by the other handlers)
NewHandlerState == [calls_this_turn |-> U32(0), outputs |-> <<>>]

\* handler.intercept(content, ctx) by dynamic dispatch: the verdict and the
\* handler's state after the call
Intercept(h, st, c, x, checks) ==
    CASE h.name = "noop" -> [verdict |-> Allow, state |-> st]
      [] h.name = "drop" -> [verdict |-> Drop(h.reason), state |-> st]
      [] h.name = "upper" -> [verdict |-> Modify(to_uppercase(c)), state |-> st]
      [] h.name = "tripwire" ->
            [verdict |-> TripwireIntercept(h.patterns, c, x), state |-> st]
      [] h.name = "single-action" ->
            LET r == SingleActionIntercept(st.calls_this_turn, h.max_per_turn, x, checks)
            IN  [verdict |-> r.verdict,
                 state |-> [st EXCEPT !.calls_this_turn = r.calls]]
      [] h.name = "depth-guard" ->
            [verdict |-> DepthGuardIntercept(c, x), state |-> st]
      [] h.name = "convergence-detector" ->
            LET r == ConvergenceIntercept(st.outputs, h.threshold, c, x)
            IN  [verdict |-> r.verdict, state |-> [st EXCEPT !.outputs = r.outputs]]

\* faulty variant: reset() leaves the state as it is
ResetStateKeeps(h, st) == st

\* reset() of a stateful handler
ResetState(h, st) ==
    CASE h.name = "single-action" -> [st EXCEPT !.calls_this_turn = U32(0)]
      [] h.name = "convergence-detector" -> [st EXCEPT !.outputs = clear(st.outputs)]
      [] OTHER -> st

\* ------------------------------------------------------------------------
\* Inputs
\* ------------------------------------------------------------------------
S_HI == <<"H", "I">>
S_rm == <<"r", "m">>
S_no == <<"n", "o">>
S_invalid == <<"[", "i", "n">>

Contents == {S_HI, S_rm}

\* the contexts process is called with
Contexts ==
    {InterventionContext("Inbound", None, None),
     InterventionContext("ToolInvocation", None, Some("delegate")),
     InterventionContext("ToolInvocation", Some("worker-1"), Some("delegate")),
     InterventionContext("ToolResult", None, Some("delegate"))}

\* the handlers a chain is configured from
Roster ==
    {NoopInterventionHandler, DropH(S_no), UpperH,
     TripwireHandler(from_strings(<<S_invalid, S_rm>>)),
     SingleActionHandler(U32(1)), DepthGuardHandler,
     ConvergenceDetector(Ratio(7, 10))}

\* ------------------------------------------------------------------------
\* State
\* ------------------------------------------------------------------------
VARIABLES
    handlers,        \* InterventionChain.handlers
    hstate,          \* hstate[k]: the state handler k owns
    pc,              \* "idle", "running" (inside process) or "done"
    content,         \* process: the content argument
    ctx,             \* process: the ctx argument
    current,         \* process: the running content
    idx,             \* process: position of the loop over handlers
    result,          \* what process returned
    invoked,         \* the intercept calls process has made, in order
    hstate0,         \* hstate when process was entered
    nprocess,        \* process calls made so far
    overflow_checks, \* whether the build checks integer overflow
    track_order,     \* whether the order of begins, returns and resets on the
                     \* shared handlers is recorded (tbegan, cbegan, cstale)
    \* one SingleActionHandler shared by concurrent callers
    calls_this_turn, \* SingleActionHandler.calls_this_turn
    max_per_turn,    \* SingleActionHandler.max_per_turn
    tpc,             \* tpc[t]: where caller t is in intercept
    tctx,            \* tctx[t]: the ctx of t's call
    tcount,          \* tcount[t]: the local `count` of t's call
    tret,            \* tret[t]: what t's last call returned
    tepoch,          \* tepoch[t]: t's fetch_add came after the latest reset
    tbegan,          \* tbegan[t]: the ToolInvocation intercepts of the round
                     \* that had returned when t's call began
    epochLog,        \* verdicts returned for the fetch_adds since the latest reset
    prevLog,         \* epochLog as the latest reset found it
    overlapped,      \* some call overlapped another call or a reset
    ncalls,          \* intercept calls started
    nresets,         \* reset calls made
    \* the orchestrator around the chain
    agents,          \* the delegates spawned so far: [id, depth]
    \* what process has handed to `tracing`
    tracelog,        \* the records emitted by the running process call
    \* one ConvergenceDetector shared by concurrent callers
    cd_given,        \* the threshold ConvergenceDetector::new was given
    cd_threshold,    \* ConvergenceDetector.threshold
    cd_outputs,      \* ConvergenceDetector.outputs (inside the mutex)
    cpc,             \* cpc[t]: where caller t is in intercept
    cctx,            \* cctx[t]: the ctx of t's call
    ccontent,        \* ccontent[t]: the content of t's call
    cfound,          \* cfound[t]: what check_convergence returned to t
    csnap,           \* csnap[t]: the history check_convergence iterated over
    cbegan,          \* cbegan[t]: the qualifying calls of the round that had
                     \* returned when t's call began
    cstale,          \* cstale[t]: reset() ran after t's comparison and t has
                     \* not pushed yet
    cd_epoch,        \* the calls that pushed since the latest reset:
                     \* [content, ctx, seen, stale, verdict], seen the history
                     \* compared, stale whether a reset followed the comparison
    cd_prev,         \* cd_epoch as the latest reset found it
    cd_ignored,      \* the latest call that took an early return
    cd_overlapped,   \* some call overlapped another call or a reset
    cd_ncalls,       \* intercept calls started
    cd_nresets,      \* reset calls made
    \* one TripwireHandler
    tw_strings,      \* the strings from_strings was given
    tw_patterns,     \* TripwireHandler.patterns
    tw_content,      \* the content of the latest intercept call
    tw_ctx,          \* the ctx of the latest intercept call
    tw_ret,          \* what the latest intercept call returned
    tw_ncalls,       \* intercept calls made on this handler
    tw_log,          \* [content, ret] of the intercept calls made on this handler
    \* a chain run repeatedly, with resets in between
    runs,            \* [content, ctx, result] of the returned runs that began
                     \* on a new chain or right after the resets
    clean,           \* the latest run began on a new chain or right after the resets
    \* jaccard_trigrams called as a function
    jin,             \* the two strings compared and the words they were written from
    jout             \* what the calls returned: [ab, again, ba, aa, taken]

chainVars ==
    <<handlers, hstate, pc, content, ctx, current, idx, result, invoked,
      hstate0, nprocess, tracelog>>

saVars ==
    <<calls_this_turn, max_per_turn, tpc, tctx, tcount, tret, tepoch, tbegan,
      epochLog, prevLog, overlapped, ncalls, nresets>>

convVars ==
    <<cd_given, cd_threshold, cd_outputs, cpc, cctx, ccontent, cfound, csnap,
      cbegan, cstale, cd_epoch, cd_prev, cd_ignored, cd_overlapped, cd_ncalls,
      cd_nresets>>

twVars ==
    <<tw_strings, tw_patterns, tw_content, tw_ctx, tw_ret, tw_ncalls, tw_log>>

runVars == <<runs, clean>>

jacVars == <<jin, jout>>

vars ==
    <<chainVars, overflow_checks, track_order, saVars, agents, convVars, twVars,
      runVars, jacVars>>

\* what the methods of the chain leave alone
chainOnly ==
    <<overflow_checks, track_order, saVars, agents, convVars, twVars, jacVars>>

\* what the actions of the chain leave alone
chainFrame == <<chainOnly, runVars>>

\* what the actions on the shared SingleActionHandler leave alone
saFrame ==
    <<overflow_checks, track_order, chainVars, agents, convVars, twVars, runVars,
      jacVars>>

\* what the actions on the shared ConvergenceDetector leave alone
convFrame ==
    <<overflow_checks, track_order, chainVars, saVars, agents, twVars, runVars,
      jacVars>>

\* what the actions on the TripwireHandler leave alone
twFrame ==
    <<overflow_checks, track_order, chainVars, saVars, agents, convVars, runVars,
      jacVars>>

NoResult == [tag |-> "None"]

\* a chain holding the handlers hs, freshly constructed, before any call
ChainWith(hs) ==
    /\ handlers = hs
    /\ hstate = [k \in 1..Len(hs) |-> NewHandlerState]
    /\ pc = "idle"
    /\ content = <<>>
    /\ ctx = InterventionContext("Inbound", None, None)
    /\ current = <<>>
    /\ idx = 1
    /\ result = NoResult
    /\ invoked = <<>>
    /\ hstate0 = <<>>
    /\ nprocess = 0
    /\ tracelog = <<>>

\* InterventionChain::new()
ChainInit == ChainWith(<<>>)

\* ------------------------------------------------------------------------
\* InterventionChain
\* ------------------------------------------------------------------------
\* add(handler), while the chain is being configured (before its first use)
Add(h) ==
    /\ pc = "idle"
    /\ nprocess = 0
    /\ Len(handlers) < MaxChain
    /\ handlers' = Append(handlers, h)
    /\ hstate' = Append(hstate, NewHandlerState)
    /\ UNCHANGED <<pc, content, ctx, current, idx, result, invoked, hstate0,
                   nprocess, tracelog, chainFrame>>

\* process(content, ctx) is entered: `let mut current = content.to_string()`
Enter(c, x) ==
    /\ pc \in {"idle", "done"}
    /\ pc' = "running"
    /\ content' = c
    /\ ctx' = x
    /\ current' = c
    /\ idx' = 1
    /\ result' = NoResult
    /\ invoked' = <<>>
    /\ hstate0' = hstate
    /\ nprocess' = nprocess + 1
    /\ tracelog' = <<>>
    /\ UNCHANGED <<handlers, hstate, chainOnly>>

\* a process call on the chain under test
Begin(c, x) ==
    /\ nprocess < MaxProcess
    /\ Enter(c, x)
    /\ UNCHANGED runVars

\* faulty variant: the handlers visited last to first
LoopPositionReversed(i, n) == n + 1 - i

\* `for handler in &self.handlers`: the handler visited in iteration i
LoopPosition(i, n) == i

\* faulty variant: Drop and Halt do not return: the loop goes on
StepOutcomeNoShortCircuit(v, cur, i) ==
    [current |-> IF v.tag = "Modify" THEN v.text ELSE cur, idx |-> i + 1,
     result |-> NoResult, pc |-> "running"]

\* faulty variant: Modify does not replace the running content
StepOutcomeKeepsContent(v, cur, i) ==
    CASE v.tag \in {"Allow", "Modify"} ->
            [current |-> cur, idx |-> i + 1, result |-> NoResult, pc |-> "running"]
      [] v.tag = "Drop" ->
            [current |-> cur, idx |-> i, result |-> Drop(v.reason), pc |-> "done"]
      [] v.tag = "Halt" ->
            [current |-> cur, idx |-> i, result |-> Halt(v.reason), pc |-> "done"]
      [] v.tag = "Panic" ->
            [current |-> cur, idx |-> i, result |-> Panic, pc |-> "done"]

\* the match on a handler's verdict: what the loop does next
StepOutcome(v, cur, i) ==
    CASE v.tag = "Allow" ->
            [current |-> cur, idx |-> i + 1, result |-> NoResult, pc |-> "running"]
      [] v.tag = "Modify" ->
            [current |-> v.text, idx |-> i + 1, result |-> NoResult, pc |-> "running"]
      [] v.tag = "Drop" ->
            [current |-> cur, idx |-> i, result |-> Drop(v.reason), pc |-> "done"]
      [] v.tag = "Halt" ->
            [current |-> cur, idx |-> i, result |-> Halt(v.reason), pc |-> "done"]
      [] v.tag = "Panic" ->
            [current |-> cur, idx |-> i, result |-> Panic, pc |-> "done"]

\* faulty variant: a Modify leaves no record
TraceRecordsModifySilent(name, v) ==
    CASE v.tag = "Drop" ->
            <<[level |-> "WARN", handler |-> name, reason |-> Some(v.reason),
               message |-> "InterventionHandler dropped message"]>>
      [] v.tag = "Halt" ->
            <<[level |-> "ERROR", handler |-> name, reason |-> Some(v.reason),
               message |-> "InterventionHandler HALT"]>>
      [] OTHER -> <<>>

\* what the match hands to `tracing` before it acts on a verdict:
\* tracing::debug! for Modify, tracing::warn! for Drop, tracing::error! for
\* Halt, each with the field handler = handler.name(); nothing for Allow
TraceRecords(name, v) ==
    CASE v.tag = "Modify" ->
            <<[level |-> "DEBUG", handler |-> name, reason |-> None,
               message |-> "InterventionHandler modified message"]>>
      [] v.tag = "Drop" ->
            <<[level |-> "WARN", handler |-> name, reason |-> Some(v.reason),
               message |-> "InterventionHandler dropped message"]>>
      [] v.tag = "Halt" ->
            <<[level |-> "ERROR", handler |-> name, reason |-> Some(v.reason),
               message |-> "InterventionHandler HALT"]>>
      [] OTHER -> <<>>

\* one iteration of the loop of process: the intercept call and the match
ProcessStep ==
    /\ pc = "running"
    /\ idx <= Len(handlers)
    /\ LET k == LoopPosition(idx, Len(handlers))
           r == Intercept(handlers[k], hstate[k], current, ctx, overflow_checks)
           o == StepOutcome(r.verdict, current, idx)
       IN  /\ hstate' = [hstate EXCEPT ![k] = r.state]
           /\ invoked' = Append(invoked,
                                [index |-> k, handler |-> handlers[k].name,
                                 content |-> current, ctx |-> ctx,
                                 verdict |-> r.verdict])
           /\ tracelog' = tracelog \o TraceRecords(handlers[k].name, r.verdict)
           /\ current' = o.current
           /\ idx' = o.idx
           /\ result' = o.result
           /\ pc' = o.pc
    /\ UNCHANGED <<handlers, content, ctx, hstate0, nprocess, chainFrame>>

\* faulty variant: the final content is returned without the comparison
FinalVerdictNoCompare(cur, c) == Modify(cur)

\* `if current != content { Modify(current) } else { Allow }`
FinalVerdict(cur, c) == IF cur # c THEN Modify(cur) ELSE Allow

\* the loop is over: process returns
ProcessReturn ==
    /\ pc = "running"
    /\ idx > Len(handlers)
    /\ result' = FinalVerdict(current, content)
    /\ pc' = "done"
    /\ UNCHANGED <<handlers, hstate, content, ctx, current, idx, invoked,
                   hstate0, nprocess, tracelog, chainFrame>>

\* between two process calls the caller resets stateful handler k; the
\* returned call's locals are dead by then
ResetHandler(k) ==
    /\ pc \in {"done", "idle"}
    /\ nprocess > 0
    /\ handlers[k].name \in {"single-action", "convergence-detector"}
    /\ hstate[k] # ResetState(handlers[k], hstate[k])
    /\ hstate' = [hstate EXCEPT ![k] = ResetState(handlers[k], hstate[k])]
    /\ pc' = "idle"
    /\ content' = <<>>
    /\ ctx' = InterventionContext("Inbound", None, None)
    /\ current' = <<>>
    /\ idx' = 1
    /\ result' = NoResult
    /\ invoked' = <<>>
    /\ hstate0' = <<>>
    /\ tracelog' = <<>>
    /\ UNCHANGED <<handlers, nprocess, chainFrame>>

\* ------------------------------------------------------------------------
\* One SingleActionHandler shared by concurrent callers
\* ------------------------------------------------------------------------
Threads == 1..NumThreads

\* the contexts of tests::tool_ctx(None, "file_read") and tests::inbound_ctx()
SAContexts ==
    {InterventionContext("ToolInvocation", None, Some("file_read")),
     InterventionContext("Inbound", None, None)}

\* a handler with limit max whose counter is at calls, and nobody calling
SAAt(max, calls) ==
    /\ calls_this_turn = calls
    /\ max_per_turn = max
    /\ tpc = [t \in Threads |-> "idle"]
    /\ tctx = [t \in Threads |-> InterventionContext("Inbound", None, None)]
    /\ tcount = [t \in Threads |-> U32(0)]
    /\ tret = [t \in Threads |-> NoResult]
    /\ tepoch = [t \in Threads |-> FALSE]
    /\ tbegan = [t \in Threads |-> 0]
    /\ epochLog = <<>>
    /\ prevLog = <<>>
    /\ overlapped = FALSE
    /\ ncalls = 0
    /\ nresets = 0

\* SingleActionHandler::new(max)
SANew(max) == SAAt(max, U32(0))

\* a detector with the threshold field at threshold, an empty history and
\* nobody calling
CDWith(given, threshold) ==
    /\ cd_given = given
    /\ cd_threshold = threshold
    /\ cd_outputs = <<>>
    /\ cpc = [t \in Threads |-> "idle"]
    /\ cctx = [t \in Threads |-> InterventionContext("Inbound", None, None)]
    /\ ccontent = [t \in Threads |-> <<>>]
    /\ cfound = [t \in Threads |-> None]
    /\ csnap = [t \in Threads |-> <<>>]
    /\ cbegan = [t \in Threads |-> 0]
    /\ cstale = [t \in Threads |-> FALSE]
    /\ cd_epoch = <<>>
    /\ cd_prev = <<>>
    /\ cd_ignored = None
    /\ cd_overlapped = FALSE
    /\ cd_ncalls = 0
    /\ cd_nresets = 0

\* ConvergenceDetector::new(threshold)
CDNew(threshold) == CDWith(threshold, ConvergenceDetector(threshold).threshold)

\* a handler with the active patterns from_strings(strings), not called yet
TWWith(strings) ==
    /\ tw_strings = strings
    /\ tw_patterns = from_strings(strings)
    /\ tw_content = <<>>
    /\ tw_ctx = InterventionContext("Inbound", None, None)
    /\ tw_ret = NoResult
    /\ tw_ncalls = 0
    /\ tw_log = {}

\* no run of the repeated-run scenario has been made
NoRuns ==
    /\ runs = {}
    /\ clean = TRUE

\* the strings a and b written from the words a_words and b_words, and no
\* call of jaccard_trigrams made on them yet
JacWith(a_words, b_words, a, b) ==
    /\ jin = [a_words |-> a_words, b_words |-> b_words, a |-> a, b |-> b]
    /\ jout = [ab |-> None, again |-> None, ba |-> None, aa |-> None,
               taken |-> None]

JacIdle == JacWith(<<>>, <<>>, <<>>, <<>>)

\* the handlers outside a chain, as constructed
HandlersInit ==
    /\ SANew(U32(1))
    /\ CDNew(Ratio(7, 10))
    /\ TWWith(<<>>)

Init ==
    /\ ChainInit
    /\ overflow_checks = TRUE
    /\ HandlersInit
    /\ agents = <<>>
    /\ NoRuns
    /\ track_order = FALSE
    /\ JacIdle

AddAny == \E h \in Roster : Add(h)

BeginAny == \E c \in Contents, x \in Contexts : Begin(c, x)

ResetAny == \E k \in 1..Len(handlers) : ResetHandler(k)

Next ==
    \/ AddAny
    \/ BeginAny
    \/ ProcessStep
    \/ ProcessReturn
    \/ ResetAny

Spec == Init /\ [][Next]_vars

\* ------------------------------------------------------------------------
\* Properties of InterventionChain.process
\* ------------------------------------------------------------------------
Stops(k) == invoked[k].verdict.tag \in {"Drop", "Halt"}

Continues(k) == invoked[k].verdict.tag \in {"Allow", "Modify"}

\* the content the calls before call k have left: the payload of the most
\* recent Modify among them, or the original input
ContentBefore(k) ==
    LET M == {j \in 1..(k - 1) : invoked[j].verdict.tag = "Modify"} IN
    IF M = {} THEN content
    ELSE invoked[CHOOSE j \in M : \A i \in M : i <= j].verdict.text

\* C1: when a handler returns Drop or Halt, process returns that very verdict
\* (variant and reason), the handler is the last one invoked, and every
\* handler registered after it still has the state it had when process was
\* entered.
C1_FirstDropOrHaltWins ==
    \A k \in 1..Len(invoked) :
        Stops(k) =>
            /\ pc = "done"
            /\ result = invoked[k].verdict
            /\ k = Len(invoked)
            /\ \A j \in 1..(k - 1) : ~Stops(j)
            /\ \A j \in (invoked[k].index + 1)..Len(handlers) :
                  hstate[j] = hstate0[j]

\* a chain [.., stopping handler, single-action]: the tool invocation was
\* dropped before the counter handler, which would have counted it
C1_Witness ==
    /\ pc = "done"
    /\ Len(handlers) = 3
    /\ Len(invoked) = 2
    /\ invoked[1].verdict = Allow
    /\ result.tag = "Drop"
    /\ handlers[3].name = "single-action"
    /\ ctx.direction = "ToolInvocation"

\* C2: every handler is given the original input if no handler before it
\* returned Modify, and otherwise the payload of the latest Modify before it.
C2_ModifyFeedsForward ==
    \A k \in 1..Len(invoked) : invoked[k].content = ContentBefore(k)

\* Modify, then Allow, then a third handler that sees the modified content
C2_Witness ==
    /\ Len(invoked) = 3
    /\ invoked[1].verdict.tag = "Modify"
    /\ invoked[2].verdict = Allow
    /\ invoked[3].content = invoked[1].verdict.text
    /\ invoked[3].content # content

\* C3: a process call in which no handler stopped returns Allow exactly when
\* the final running content equals the input, and Modify(final) otherwise.
C3_AllowIffNetUnchanged ==
    (pc = "done" /\ \A k \in 1..Len(invoked) : Continues(k)) =>
        LET final == ContentBefore(Len(invoked) + 1) IN
        /\ (result = Allow) <=> (final = content)
        /\ (final # content) => (result = Modify(final))

\* a handler returned Modify, yet the content ended up equal to the input
C3_Witness ==
    /\ pc = "done"
    /\ result = Allow
    /\ \E k \in 1..Len(invoked) : invoked[k].verdict.tag = "Modify"

\* C4: the k-th intercept call of a process call goes to the k-th handler
\* added, with the context process was given, and is made only after the
\* call before it returned Allow or Modify.
C4_SequentialInOrder ==
    \A k \in 1..Len(invoked) :
        /\ invoked[k].index = k
        /\ invoked[k].handler = handlers[k].name
        /\ invoked[k].ctx = ctx
        /\ k > 1 => Continues(k - 1)
        /\ k <= Len(handlers)

\* three different handlers ran, one after the other
C4_Witness ==
    /\ pc = "done"
    /\ Len(invoked) = 3
    /\ invoked[1].handler # invoked[2].handler
    /\ invoked[2].handler # invoked[3].handler
    /\ invoked[1].handler # invoked[3].handler

\* the verdicts process acted on: every verdict but Allow
IsActedOn(e) == e.verdict.tag \in {"Modify", "Drop", "Halt"}

\* the running call has emitted one record per verdict acted on, in order,
\* tagged with the handler's name, with the reason of a Drop or Halt, at
\* level modifyLevel for a Modify, WARN for a Drop and ERROR for a Halt
LoggedOnceEach(modifyLevel) ==
    LET acted == SelectSeq(invoked, IsActedOn) IN
    /\ Len(tracelog) = Len(acted)
    /\ \A i \in 1..Len(acted) :
          LET v == acted[i].verdict IN
          /\ tracelog[i].handler = acted[i].handler
          /\ tracelog[i].handler = handlers[acted[i].index].name
          /\ v.tag = "Modify" =>
                /\ tracelog[i].level = modifyLevel
                /\ tracelog[i].reason = None
          /\ v.tag = "Drop" =>
                /\ tracelog[i].level = "WARN"
                /\ tracelog[i].reason = Some(v.reason)
          /\ v.tag = "Halt" =>
                /\ tracelog[i].level = "ERROR"
                /\ tracelog[i].reason = Some(v.reason)

\* C20 (as claimed): every verdict the chain acts on is logged once, tagged
\* with the name of its handler: a Modify at the informational level, a Drop
\* as a warning with the reason, a Halt at the error level with the reason.
C20_LoggedAtStatedSeverity == LoggedOnceEach("INFO")

\* C20 (amended): every verdict the chain acts on is logged once, tagged with
\* the name of its handler: a Modify at the debug level, the level below the
\* informational one, a Drop as a warning with the reason, a Halt at the
\* error level with the reason.
C20_LoggedAtCodeSeverity == LoggedOnceEach("DEBUG")

\* a Modify and then a Drop: a debug record and a warning, each with its
\* handler's name
C20_Witness ==
    /\ pc = "done"
    /\ Len(invoked) = 2
    /\ Len(tracelog) = 2
    /\ tracelog[1].level = "DEBUG"
    /\ tracelog[1].handler = "upper"
    /\ tracelog[2].level = "WARN"
    /\ tracelog[2].handler = "drop"
    /\ tracelog[2].reason = Some(S_no)

\* ------------------------------------------------------------------------
\* SingleActionHandler under concurrent callers
\* ------------------------------------------------------------------------
\* caller t enters intercept(_, x)
SACall(t, x) ==
    /\ tpc[t] = "idle"
    /\ ncalls < MaxCalls
    /\ tpc' = [tpc EXCEPT ![t] = "called"]
    /\ tctx' = [tctx EXCEPT ![t] = x]
    /\ tret' = [tret EXCEPT ![t] = NoResult]
    /\ ncalls' = ncalls + 1
    /\ tbegan' = [tbegan EXCEPT ![t] = IF track_order THEN Len(epochLog) ELSE 0]
    /\ overlapped' = (overlapped \/ \E u \in Threads \ {t} : tpc[u] # "idle")
    /\ UNCHANGED <<calls_this_turn, max_per_turn, tcount, tepoch, epochLog,
                   prevLog, nresets, saFrame>>

\* `if ctx.direction != ToolInvocation { return Allow }`
SAEarlyReturn(t) ==
    /\ tpc[t] = "called"
    /\ ~SAEnforced(tctx[t])
    /\ tpc' = [tpc EXCEPT ![t] = "idle"]
    /\ tret' = [tret EXCEPT ![t] = Allow]
    /\ tbegan' = [tbegan EXCEPT ![t] = 0]
    /\ UNCHANGED <<calls_this_turn, max_per_turn, tctx, tcount, tepoch, epochLog,
                   prevLog, overlapped, ncalls, nresets, saFrame>>

\* `let count = self.calls_this_turn.fetch_add(1, SeqCst)`
SAFetchAdd(t) ==
    /\ tpc[t] = "called"
    /\ SAEnforced(tctx[t])
    /\ tcount' = [tcount EXCEPT ![t] = fetch_add(calls_this_turn).prev]
    /\ calls_this_turn' = fetch_add(calls_this_turn).next
    /\ tepoch' = [tepoch EXCEPT ![t] = TRUE]
    /\ tpc' = [tpc EXCEPT ![t] = "fetched"]
    /\ UNCHANGED <<max_per_turn, tctx, tret, tbegan, epochLog, prevLog,
                   overlapped, ncalls, nresets, saFrame>>

\* `if count >= self.max_per_turn { Drop(..) } else { Allow }`; a caller whose
\* call panics unwinds and calls no more
SAReturn(t) ==
    /\ tpc[t] = "fetched"
    /\ LET v == SAVerdict(tcount[t], max_per_turn, overflow_checks) IN
       /\ tret' = [tret EXCEPT ![t] = v]
       /\ epochLog' = IF tepoch[t] THEN Append(epochLog, v.tag) ELSE epochLog
       /\ tpc' = [tpc EXCEPT ![t] = IF v = Panic THEN "panicked" ELSE "idle"]
    /\ tepoch' = [tepoch EXCEPT ![t] = FALSE]
    /\ tbegan' = [tbegan EXCEPT ![t] = 0]
    /\ UNCHANGED <<calls_this_turn, max_per_turn, tctx, tcount, prevLog,
                   overlapped, ncalls, nresets, saFrame>>

\* reset(): `self.calls_this_turn.store(0, SeqCst)`
SAReset ==
    /\ nresets < MaxResets
    /\ calls_this_turn' = U32(0)
    /\ tepoch' = [t \in Threads |-> FALSE]
    /\ tbegan' = [t \in Threads |-> 0]
    /\ prevLog' = epochLog
    /\ epochLog' = <<>>
    /\ overlapped' = (overlapped \/ \E u \in Threads : tpc[u] # "idle")
    /\ nresets' = nresets + 1
    /\ UNCHANGED <<max_per_turn, tpc, tctx, tcount, tret, ncalls, saFrame>>

SACallAny == \E t \in Threads, x \in SAContexts : SACall(t, x)

SAEarlyReturnAny == \E t \in Threads : SAEarlyReturn(t)

SAFetchAddAny == \E t \in Threads : SAFetchAdd(t)

SAReturnAny == \E t \in Threads : SAReturn(t)

SANext ==
    \/ SACallAny
    \/ SAEarlyReturnAny
    \/ SAFetchAddAny
    \/ SAReturnAny
    \/ SAReset

\* a handler constructed with any limit up to MaxLimit
SAInit ==
    /\ ChainInit
    /\ overflow_checks = TRUE
    /\ \E n \in 0..MaxLimit : SANew(U32(n))
    /\ CDNew(Ratio(7, 10))
    /\ TWWith(<<>>)
    /\ agents = <<>>
    /\ NoRuns
    /\ track_order = FALSE
    /\ JacIdle

SpecSA == SAInit /\ [][SANext]_vars

\* the state of a handler that has been called 2^32 - 1 - d times, d up to
\* WrapWindow, since it was constructed: every value of the counter is
\* reached by that many calls, each of which adds 1
SAInitWrap ==
    /\ ChainInit
    /\ overflow_checks \in BOOLEAN
    /\ \E n \in 0..MaxLimit, d \in 0..WrapWindow :
          SAAt(U32(n), [hi |-> LimbMod - 1, lo |-> LimbMod - 1 - d])
    /\ CDNew(Ratio(7, 10))
    /\ TWWith(<<>>)
    /\ agents = <<>>
    /\ NoRuns
    /\ track_order = FALSE
    /\ JacIdle

SpecWrap == SAInitWrap /\ [][SANext]_vars

\* ------------------------------------------------------------------------
\* Properties of SingleActionHandler
\* ------------------------------------------------------------------------
\* max_per_turn as a number
LimitN == max_per_turn.hi * LimbMod + max_per_turn.lo

CountOf(log, tag) == Cardinality({i \in 1..Len(log) : log[i] = tag})

Min(a, b) == IF a <= b THEN a ELSE b

\* calls that have done their fetch_add since the latest reset, have not
\* returned yet, and will return Allow
PendingAllows ==
    Cardinality({t \in Threads :
        /\ tpc[t] = "fetched"
        /\ tepoch[t]
        /\ SAVerdict(tcount[t], max_per_turn, overflow_checks) = Allow})

\* C5: in a run without overlapping calls, the first N ToolInvocation
\* intercepts since construction or since a reset return Allow and the
\* (N+1)-th returns Drop; in particular the first one after a reset returns
\* Allow when N >= 1.
C5_FirstNAllowedThenDrop ==
    ~overlapped =>
        \A i \in 1..Len(epochLog) :
            /\ i <= LimitN => epochLog[i] = "Allow"
            /\ i = LimitN + 1 => epochLog[i] = "Drop"

\* N Allows and a Drop, then reset(), then Allow again
C5_Witness ==
    /\ ~overlapped
    /\ nresets = 1
    /\ LimitN >= 1
    /\ Len(prevLog) = LimitN + 1
    /\ prevLog[LimitN + 1] = "Drop"
    /\ Len(epochLog) >= 1
    /\ epochLog[1] = "Allow"

\* C6: under every interleaving, of the ToolInvocation intercepts whose
\* fetch_add falls between two consecutive resets (or between construction
\* and the first reset) at most N return Allow; and when k such intercepts
\* have all returned and there was no reset, exactly min(k, N) returned
\* Allow.
C6_AtMostNAllowedPerEpoch ==
    /\ CountOf(epochLog, "Allow") + PendingAllows <= LimitN
    /\ CountOf(prevLog, "Allow") <= LimitN
    /\ (nresets = 0 /\ \A t \in Threads : tpc[t] = "idle") =>
          CountOf(epochLog, "Allow") = Min(Len(epochLog), LimitN)

\* two overlapping tool invocations against limit 1: one Allow, one Drop
C6_Witness ==
    /\ overlapped
    /\ nresets = 0
    /\ LimitN = 1
    /\ ncalls = 2
    /\ \A t \in Threads : tpc[t] = "idle"
    /\ Len(epochLog) = 2
    /\ CountOf(epochLog, "Allow") = 1

\* C7 (as claimed): with no reset, once a ToolInvocation intercept has
\* returned Drop, every later ToolInvocation intercept that returns, returns
\* Drop.
C7_PermanentlyRestrictive ==
    (~overlapped /\ nresets = 0) =>
        \A i, j \in 1..Len(epochLog) :
            (i < j /\ epochLog[i] = "Drop") => epochLog[j] \in {"Drop", "Panic"}

\* C8: no step of an intercept call whose direction is not ToolInvocation
\* changes the counter, whatever its value, and the call returns Allow.
C8_OtherDirectionsUntouched ==
    [][\A t \in Threads :
          (tpc[t] # "idle" /\ tpc'[t] # tpc[t]
             /\ tctx[t].direction # "ToolInvocation") =>
                /\ calls_this_turn' = calls_this_turn
                /\ tpc'[t] = "idle"
                /\ tret'[t] = Allow]_vars

\* a non-tool message was allowed while the limit was already exceeded
C8_Witness ==
    \E t \in Threads :
        /\ tpc[t] = "idle"
        /\ tret[t] = Allow
        /\ tctx[t].direction # "ToolInvocation"
        /\ U32Ge(calls_this_turn, max_per_turn)
        /\ calls_this_turn # max_per_turn
        /\ CountOf(epochLog, "Drop") >= 1

\* C18 (as claimed): every intercept call returns one of the verdicts Allow,
\* Modify, Drop and Halt, whatever the value of the counter, its maximum
\* 2^32 - 1 included: no call ends in a panic.
C18_EveryCallReturnsVerdict ==
    \A t \in Threads :
        /\ tpc[t] # "panicked"
        /\ tret[t] # NoResult => tret[t].tag \in {"Allow", "Modify", "Drop", "Halt"}

\* the ToolInvocation intercepts whose fetch_add came after the latest reset
PerformedSinceReset ==
    Len(epochLog) + Cardinality({t \in Threads : tpc[t] = "fetched" /\ tepoch[t]})

\* C27 (as claimed): count() is the number of ToolInvocation intercepts
\* performed since the latest reset, those that returned Drop included, and
\* the ordinal in the reason of a Drop is the count the call found plus one.
C27_CountAndOrdinal ==
    /\ nresets >= 1 => load(calls_this_turn) = U32(PerformedSinceReset)
    /\ \A t \in Threads :
          (tpc[t] = "idle" /\ tret[t].tag = "Drop") =>
              /\ tcount[t] # U32Max
              /\ tret[t].reason.attempted = U32WrappingInc(tcount[t])

\* ------------------------------------------------------------------------
\* The orchestrator around a chain that holds a DepthGuardHandler
\* ------------------------------------------------------------------------
\* the root orchestrator is agent 0 and has no identity; delegate i carries
\* the identity it was given when it was spawned
AgentIdentity(a) == IF a = 0 THEN None ELSE Some(agents[a].id)

\* delegation depth: the root is at depth 1
DepthOf(identity) ==
    IF ~identity.some THEN 1
    ELSE agents[CHOOSE i \in 1..Len(agents) : agents[i].id = identity.value].depth

ToolNames == {None, Some("delegate"), Some("file_read")}

\* the chains an orchestrator is configured with
DepthChains ==
    {<<DepthGuardHandler>>,
     <<UpperH, DepthGuardHandler>>,
     <<DepthGuardHandler, ConvergenceDetector(Ratio(7, 10))>>,
     <<TripwireHandler(from_strings(<<S_invalid, S_rm>>)),
       SingleActionHandler(U32(1)), DepthGuardHandler,
       ConvergenceDetector(Ratio(7, 10))>>}

\* agent a sends a message of direction d about tool t through the chain
OrchInvoke(a, d, t, c) ==
    /\ pc = "idle"
    /\ nprocess < MaxInvocations
    /\ Enter(c, InterventionContext(d, AgentIdentity(a), t))
    /\ UNCHANGED runVars

\* the orchestrator acts on the verdict: a "delegate" tool invocation that the
\* chain let through (Allow or Modify) spawns a delegate one level below its
\* caller; a Drop or Halt spawns nothing
OrchAct ==
    /\ pc = "done"
    /\ pc' = "idle"
    /\ agents' =
          IF /\ result.tag \in {"Allow", "Modify"}
             /\ ctx.direction = "ToolInvocation"
             /\ ctx.tool_name = Some("delegate")
             /\ Len(agents) < MaxAgents
          THEN Append(agents, [id |-> "worker-" \o ToString(Len(agents) + 1),
                               depth |-> DepthOf(ctx.agent_id) + 1])
          ELSE agents
    /\ UNCHANGED <<handlers, hstate, content, ctx, current, idx, result,
                   invoked, hstate0, nprocess, tracelog, overflow_checks,
                   track_order, saVars, convVars, twVars, runVars, jacVars>>

OrchInvokeAny ==
    \E a \in 0..Len(agents), d \in MessageDirection, t \in ToolNames,
       c \in Contents : OrchInvoke(a, d, t, c)

DepthInit ==
    /\ \E hs \in DepthChains : ChainWith(hs)
    /\ overflow_checks = TRUE
    /\ HandlersInit
    /\ agents = <<>>
    /\ NoRuns
    /\ track_order = FALSE
    /\ JacIdle

DepthNext ==
    \/ OrchInvokeAny
    \/ ProcessStep
    \/ ProcessReturn
    \/ OrchAct
    \/ ResetAny

SpecDepth == DepthInit /\ [][DepthNext]_vars

\* ------------------------------------------------------------------------
\* Properties of DepthGuardHandler
\* ------------------------------------------------------------------------
DelegatingDelegate(x) ==
    /\ x.direction = "ToolInvocation"
    /\ x.agent_id # None
    /\ x.tool_name = Some("delegate")

\* C9: DepthGuardHandler.intercept returns Drop exactly for a ToolInvocation
\* that carries an agent identity and the tool name "delegate", and Allow in
\* every other case; the Drop reason names that agent identity.
C9_DropIffDelegateDelegates ==
    \A k \in 1..Len(invoked) :
        invoked[k].handler = "depth-guard" =>
            LET v == invoked[k].verdict
                x == invoked[k].ctx
            IN  /\ v.tag \in {"Allow", "Drop"}
                /\ (v.tag = "Drop") <=> DelegatingDelegate(x)
                /\ v.tag = "Drop" =>
                      v.reason = [handler |-> "depth-guard",
                                  agent |-> x.agent_id.value]

\* a delegate's own "delegate" call was dropped by the guard, by name
C9_Witness ==
    \E k \in 1..Len(invoked) :
        /\ invoked[k].handler = "depth-guard"
        /\ invoked[k].verdict =
              Drop([handler |-> "depth-guard", agent |-> "worker-1"])

\* C10: no delegate is ever at a delegation depth greater than 2.
C10_DepthAtMostTwo == \A i \in 1..Len(agents) : agents[i].depth <= 2

\* two delegates exist at depth 2 and the guard has just dropped the attempt
\* of one of them to delegate
C10_Witness ==
    /\ Len(agents) >= 2
    /\ \A i \in 1..Len(agents) : agents[i].depth = 2
    /\ pc = "done"
    /\ result.tag = "Drop"
    /\ ctx.agent_id # None
    /\ invoked[Len(invoked)].handler = "depth-guard"

\* ------------------------------------------------------------------------
\* One ConvergenceDetector shared by concurrent callers
\* ------------------------------------------------------------------------
\* delegate outputs: words separated by whitespace
S_empty == <<>>
S_abcd == <<"a", " ", "b", " ", "c", " ", "d">>
S_abcd_nl == <<"a", " ", "b", " ", "c", "\n", "d">>

ConvContents == {S_empty, S_abcd, S_abcd_nl}

\* tests::delegate_result_ctx(), and three contexts that differ from it in
\* the tool name (another tool, no tool) or in the direction
ConvContexts ==
    {InterventionContext("ToolResult", None, Some("delegate")),
     InterventionContext("ToolResult", None, Some("file_read")),
     InterventionContext("ToolResult", None, None),
     InterventionContext("Inbound", None, Some("delegate"))}

\* the thresholds a detector is constructed with: below, in and above [0, 1]
Thresholds == {Ratio(0 - 1, 2), Ratio(1, 2), Ratio(3, 2)}

\* the locals of a call that has returned are dead
CDLocalsDie(t) ==
    /\ cpc' = [cpc EXCEPT ![t] = "idle"]
    /\ cctx' = [cctx EXCEPT ![t] = InterventionContext("Inbound", None, None)]
    /\ ccontent' = [ccontent EXCEPT ![t] = <<>>]
    /\ cfound' = [cfound EXCEPT ![t] = None]
    /\ csnap' = [csnap EXCEPT ![t] = <<>>]
    /\ cbegan' = [cbegan EXCEPT ![t] = 0]
    /\ cstale' = [cstale EXCEPT ![t] = FALSE]

\* caller t calls intercept(c, x) and takes one of the two early returns:
\* the call reads its arguments only, so it is one step
CDEarlyReturn(t, c, x) ==
    /\ cpc[t] = "idle"
    /\ cd_ncalls < MaxConvCalls
    /\ ~ConvergenceQualifies(x)
    /\ cd_ignored' = Some([content |-> c, ctx |-> x, verdict |-> Allow])
    /\ cd_ncalls' = cd_ncalls + 1
    /\ cd_overlapped' = (cd_overlapped \/ \E u \in Threads \ {t} : cpc[u] # "idle")
    /\ UNCHANGED <<cd_given, cd_threshold, cd_outputs, cpc, cctx, ccontent,
                   cfound, csnap, cbegan, cstale, cd_epoch, cd_prev, cd_nresets,
                   convFrame>>

\* caller t calls intercept(c, x) and passes the two early returns
CDCall(t, c, x) ==
    /\ cpc[t] = "idle"
    /\ cd_ncalls < MaxConvCalls
    /\ ConvergenceQualifies(x)
    /\ cpc' = [cpc EXCEPT ![t] = "called"]
    /\ cctx' = [cctx EXCEPT ![t] = x]
    /\ ccontent' = [ccontent EXCEPT ![t] = c]
    /\ cbegan' = [cbegan EXCEPT ![t] = IF track_order THEN Len(cd_epoch) ELSE 0]
    /\ cd_ncalls' = cd_ncalls + 1
    /\ cd_overlapped' = (cd_overlapped \/ \E u \in Threads \ {t} : cpc[u] # "idle")
    /\ UNCHANGED <<cd_given, cd_threshold, cd_outputs, cfound, csnap, cstale,
                   cd_epoch, cd_prev, cd_ignored, cd_nresets, convFrame>>

\* `self.check_convergence(content)`: the mutex is taken, the history is
\* compared with the content, and the mutex is released on return
CDCheck(t) ==
    /\ cpc[t] = "called"
    /\ cfound' = [cfound EXCEPT
                    ![t] = check_convergence(cd_outputs, cd_threshold, ccontent[t])]
    /\ csnap' = [csnap EXCEPT ![t] = cd_outputs]
    /\ cpc' = [cpc EXCEPT ![t] = "checked"]
    /\ UNCHANGED <<cd_given, cd_threshold, cd_outputs, cctx, ccontent, cbegan,
                   cstale, cd_epoch, cd_prev, cd_ignored, cd_overlapped,
                   cd_ncalls, cd_nresets, convFrame>>

\* `self.outputs.lock().push(content.to_string())`: the mutex is taken a
\* second time; then the verdict is returned
CDPush(t) ==
    /\ cpc[t] = "checked"
    /\ cd_outputs' = push(cd_outputs, ccontent[t])
    /\ cd_epoch' = Append(cd_epoch,
                          [content |-> ccontent[t], ctx |-> cctx[t],
                           seen |-> csnap[t], stale |-> cstale[t],
                           verdict |-> ConvergenceVerdict(cfound[t], ccontent[t])])
    /\ CDLocalsDie(t)
    /\ UNCHANGED <<cd_given, cd_threshold, cd_prev, cd_ignored, cd_overlapped,
                   cd_ncalls, cd_nresets, convFrame>>

\* reset(): `self.outputs.lock().clear()`
CDReset ==
    /\ cd_nresets < MaxConvResets
    /\ cd_outputs' = clear(cd_outputs)
    /\ cd_prev' = cd_epoch
    /\ cd_epoch' = <<>>
    /\ cbegan' = [t \in Threads |-> 0]
    /\ cstale' = [t \in Threads |-> track_order /\ cpc[t] = "checked"]
    /\ cd_overlapped' = (cd_overlapped \/ \E u \in Threads : cpc[u] # "idle")
    /\ cd_nresets' = cd_nresets + 1
    /\ UNCHANGED <<cd_given, cd_threshold, cpc, cctx, ccontent, cfound, csnap,
                   cd_ignored, cd_ncalls, convFrame>>

CDCallAny ==
    \E t \in Threads, c \in ConvContents, x \in ConvContexts : CDCall(t, c, x)

CDEarlyReturnAny ==
    \E t \in Threads, c \in ConvContents, x \in ConvContexts :
        CDEarlyReturn(t, c, x)

CDCheckAny == \E t \in Threads : CDCheck(t)

CDPushAny == \E t \in Threads : CDPush(t)

ConvNext ==
    \/ CDCallAny
    \/ CDEarlyReturnAny
    \/ CDCheckAny
    \/ CDPushAny
    \/ CDReset

\* a detector constructed with any of the thresholds
ConvInit ==
    /\ ChainInit
    /\ overflow_checks = TRUE
    /\ SANew(U32(1))
    /\ \E th \in Thresholds : CDNew(th)
    /\ TWWith(<<>>)
    /\ agents = <<>>
    /\ NoRuns
    /\ track_order = FALSE
    /\ JacIdle

SpecConv == ConvInit /\ [][ConvNext]_vars

\* the detector under qualifying calls and resets only
QualifyingNext ==
    \/ CDCallAny
    \/ CDCheckAny
    \/ CDPushAny
    \/ CDReset

SpecQualifying == ConvInit /\ [][QualifyingNext]_vars

\* ------------------------------------------------------------------------
\* Properties of ConvergenceDetector
\* ------------------------------------------------------------------------
\* C11 (as claimed): when the first two calls on a detector are qualifying
\* calls with identical content and there is no reset, they do not both
\* return Allow.
C11_NeverBothAllow ==
    (/\ cd_ncalls = 2
     /\ cd_nresets = 0
     /\ Len(cd_epoch) = 2
     /\ cd_epoch[1].content = cd_epoch[2].content) =>
        ~(cd_epoch[1].verdict = Allow /\ cd_epoch[2].verdict = Allow)

\* the calls that pushed, of the round in progress and of the round before it
CDLogged == {cd_epoch[i] : i \in 1..Len(cd_epoch)} \cup {cd_prev[i] : i \in 1..Len(cd_prev)}

SamePrefix(i) == \A j \in 1..i : cd_epoch[j].content = cd_prev[j].content

\* C12: a qualifying call that finds the history empty returns Allow, for
\* every content and threshold; in a run without overlapping calls the first
\* qualifying call after construction or after reset() finds it empty, and a
\* sequence of outputs replayed after reset() gets the verdicts it got before.
C12_EmptyHistoryAllows ==
    /\ \A e \in CDLogged : e.seen = <<>> => e.verdict = Allow
    /\ ~cd_overlapped =>
          /\ Len(cd_epoch) >= 1 => cd_epoch[1].seen = <<>>
          /\ Len(cd_prev) >= 1 => cd_prev[1].seen = <<>>
          /\ \A i \in 1..Min(Len(cd_epoch), Len(cd_prev)) :
                SamePrefix(i) => cd_epoch[i].verdict = cd_prev[i].verdict

\* the same output twice (Allow, then Modify), reset(), and the same output
\* is allowed again
C12_Witness ==
    /\ ~cd_overlapped
    /\ cd_nresets = 1
    /\ Len(cd_prev) = 2
    /\ cd_prev[1].verdict = Allow
    /\ cd_prev[2].verdict.tag = "Modify"
    /\ cd_prev[2].content = cd_prev[1].content
    /\ Len(cd_epoch) = 1
    /\ SamePrefix(1)
    /\ cd_epoch[1].seen = <<>>
    /\ cd_epoch[1].verdict = Allow

\* the warning block of a similarity of 100%
FullWarning == WarningText(Ratio(1, 1))

WarningLen == Len(FullWarning)

\* a whole percentage as the warning shows it
Percentages == {ToString(p) \o "%" : p \in 0..100}

\* the warning block: the fixed text around a percentage
IsWarningBlock(w) ==
    /\ Len(w) = WarningLen
    /\ \E k \in 1..WarningLen :
          /\ FullWarning[k] = "100%"
          /\ w[k] \in Percentages
          /\ \A i \in (1..WarningLen) \ {k} : w[i] = FullWarning[i]

C14_OthersIgnored ==
    /\ cd_ignored.some => cd_ignored.value.verdict = Allow
    /\ \A e \in CDLogged :
          /\ e.ctx.direction = "ToolResult"
          /\ e.ctx.tool_name = Some("delegate")
    /\ Len(cd_outputs) = Len(cd_epoch)
    /\ \A i \in 1..Len(cd_epoch) : cd_outputs[i] = cd_epoch[i].content

\* an output was let through as the result of another tool, and the same
\* output as a delegate result met an empty history
C14_Witness ==
    /\ cd_ignored.some
    /\ cd_ignored.value.ctx.direction = "ToolResult"
    /\ cd_ignored.value.ctx.tool_name = Some("file_read")
    /\ cd_ignored.value.content = S_abcd
    /\ cd_ignored.value.verdict = Allow
    /\ cd_ncalls = 2
    /\ cd_nresets = 0
    /\ Len(cd_epoch) = 1
    /\ cd_epoch[1].content = S_abcd
    /\ cd_epoch[1].seen = <<>>
    /\ cd_epoch[1].verdict = Allow

\* some output of the history has the comparison set of the content
SameSetSeen(e) ==
    \E k \in 1..Len(e.seen) : trigrams(e.seen[k]) = trigrams(e.content)

RecordedBefore(n) == [j \in 1..n |-> cd_epoch[j].content]

\* C21: every qualifying call appends one entry to the history, after its
\* comparison and whatever its verdict, and the entry is the content it was
\* given, not the text of its Modify: under every interleaving the history
\* is, one for one and in order, the contents of the qualifying calls that
\* have returned since the latest reset, and in a run without overlapping
\* calls each call was compared with exactly the contents of the calls
\* before it in the round, flagged ones included, and not with its own.
C21_RecordedOnceAsReceived ==
    /\ cd_outputs = RecordedBefore(Len(cd_epoch))
    /\ \A i \in 1..Len(cd_epoch) :
          /\ cd_epoch[i].verdict.tag \in {"Allow", "Modify"}
          /\ cd_epoch[i].verdict.tag = "Modify" =>
                cd_outputs[i] # cd_epoch[i].verdict.text
    /\ ~cd_overlapped =>
          \A i \in 1..Len(cd_epoch) : cd_epoch[i].seen = RecordedBefore(i - 1)

\* an allowed output, a flagged one and a third that was compared with both
C21_Witness ==
    /\ ~cd_overlapped
    /\ cd_nresets = 0
    /\ Len(cd_epoch) = 3
    /\ Len(cd_outputs) = 3
    /\ cd_epoch[1].verdict = Allow
    /\ cd_epoch[2].verdict.tag = "Modify"
    /\ cd_outputs[2] = S_abcd_nl
    /\ cd_epoch[3].seen = <<S_abcd, S_abcd_nl>>
    /\ cd_epoch[3].verdict.tag = "Modify"

\* the positions of the history call e was compared with whose similarity
\* to e's content reaches the threshold
Reaching(e) ==
    {k \in 1..Len(e.seen) :
        RatioGe(jaccard_trigrams(e.seen[k], e.content), cd_threshold)}

\* the least element of a non-empty set of numbers
Least(S) == CHOOSE k \in S : \A j \in S : k <= j

SharedSA ==
    /\ cd_ncalls = 0
    /\ cd_nresets = 0
    /\ SANext

SharedCD ==
    /\ ncalls = 0
    /\ nresets = 0
    /\ QualifyingNext

SharedNext ==
    \/ SharedSA
    \/ SharedCD

SharedInit ==
    /\ ChainInit
    /\ overflow_checks = TRUE
    /\ HandlersInit
    /\ agents = <<>>
    /\ NoRuns
    /\ track_order = TRUE
    /\ JacIdle

SpecShared == SharedInit /\ [][SharedNext]_vars

\* C23: under every interleaving, the comparison of a qualifying
\* ConvergenceDetector call sees the content of every qualifying call that
\* had returned when the call began, unless a reset came in between; and the
\* count a ToolInvocation intercept of SingleActionHandler fetches includes
\* the increment of every ToolInvocation intercept that had returned when it
\* began, unless a reset came in between.
C23_CompletedCallsVisible ==
    /\ \A t \in Threads :
          (cpc[t] = "checked" /\ ~cstale[t]) =>
              /\ cbegan[t] <= Len(csnap[t])
              /\ cbegan[t] <= Len(cd_epoch)
              /\ SubSeq(csnap[t], 1, cbegan[t]) = RecordedBefore(cbegan[t])
    /\ \A t \in Threads :
          tpc[t] = "fetched" => U32Ge(tcount[t], U32(tbegan[t]))

\* a call that began after another had returned, and while a third was
\* between its comparison and its push, saw the output of the first
C23_Witness ==
    \E t, u \in Threads :
        /\ t # u
        /\ cd_nresets = 0
        /\ cpc[t] = "checked"
        /\ cbegan[t] = 1
        /\ csnap[t] = <<S_abcd>>
        /\ cd_epoch[1].content = S_abcd
        /\ cpc[u] = "checked"
        /\ cbegan[u] = 0

\* C28 (as claimed): whatever in-flight calls reset() runs concurrently with,
\* the history after reset() holds no content of a call whose comparison was
\* made before the reset.
C28_NoOutputOfEarlierRound ==
    \A i \in 1..Len(cd_outputs) :
        cd_epoch[i].content = cd_outputs[i] /\ ~cd_epoch[i].stale

\* ------------------------------------------------------------------------
\* One TripwireHandler
\* ------------------------------------------------------------------------
S_r == <<"r">>

\* the strings a handler is configured from: patterns of letters, one of
\* which does not compile
PatternStrings == {S_r, S_rm, S_HI, S_invalid}

RECURSIVE SeqsUpTo(_, _)
SeqsUpTo(S, n) ==
    IF n = 0 THEN {<<>>}
    ELSE LET shorter == SeqsUpTo(S, n - 1)
         IN  shorter \cup {Append(q, x) : q \in shorter, x \in S}

PatternLists == SeqsUpTo(PatternStrings, MaxPatterns)

TWContents == {S_empty, S_HI, S_rm}

\* every direction, with and without a tool name
TWContexts ==
    {InterventionContext(d, None, t) :
        d \in MessageDirection, t \in {None, Some("delegate")}}

\* faulty variant: a pattern that has matched is spent
TWInterceptSpending(c, x) ==
    /\ tw_ncalls < MaxScans
    /\ tw_content' = c
    /\ tw_ctx' = x
    /\ tw_ret' = TripwireIntercept(tw_patterns, c, x)
    /\ tw_ncalls' = tw_ncalls + 1
    /\ tw_log' = tw_log \cup {[content |-> c, ret |-> tw_ret']}
    /\ tw_patterns' = SelectSeq(tw_patterns, LAMBDA q : ~is_match(q, c))
    /\ UNCHANGED <<tw_strings, twFrame>>

\* intercept(c, x): the call reads `patterns` and its arguments, and the
\* handler has no field a call could write
TWIntercept(c, x) ==
    /\ tw_ncalls < MaxScans
    /\ tw_content' = c
    /\ tw_ctx' = x
    /\ tw_ret' = TripwireIntercept(tw_patterns, c, x)
    /\ tw_ncalls' = tw_ncalls + 1
    /\ tw_log' = tw_log \cup {[content |-> c, ret |-> tw_ret']}
    /\ UNCHANGED <<tw_strings, tw_patterns, twFrame>>

TWNext == \E c \in TWContents, x \in TWContexts : TWIntercept(c, x)

\* TripwireHandler::from_strings(strings) for any list of strings
TWInit ==
    /\ ChainInit
    /\ overflow_checks = TRUE
    /\ SANew(U32(1))
    /\ CDNew(Ratio(7, 10))
    /\ \E strings \in PatternLists : TWWith(strings)
    /\ agents = <<>>
    /\ NoRuns
    /\ track_order = FALSE
    /\ JacIdle

SpecTW == TWInit /\ [][TWNext]_vars

\* ------------------------------------------------------------------------
\* Properties of TripwireHandler
\* ------------------------------------------------------------------------
\* the positions of the active patterns that occur in the content
Matching == {k \in 1..Len(tw_patterns) : Contains(tw_content, tw_patterns[k])}

\* C15: intercept returns Halt exactly when the content matches an active
\* pattern, whatever the direction and the rest of the context; the reason
\* names the first matching pattern in registration order; when no pattern
\* matches (no pattern at all included) it returns Allow.
C15_HaltIffMatch ==
    tw_ncalls > 0 =>
        /\ Matching = {} => tw_ret = Allow
        /\ Matching # {} =>
              tw_ret = Halt([handler |-> "tripwire",
                             pattern |-> tw_patterns[CHOOSE k \in Matching :
                                                       \A j \in Matching : k <= j]])

\* an outbound response matched by two patterns: the first registered is named
C15_Witness ==
    /\ tw_patterns = <<S_HI, S_rm, S_r>>
    /\ tw_content = S_rm
    /\ tw_ctx.direction = "OutboundResponse"
    /\ tw_ret = Halt([handler |-> "tripwire", pattern |-> S_rm])

\* the positions of the configured strings that compile
Compiling == {i \in 1..Len(tw_strings) : RegexCompiles(tw_strings[i])}

\* C16: from_strings builds a handler from every list of strings: the active
\* patterns are the strings that compile, in their original order, and no
\* string that does not compile is among them; a handler built from such
\* strings only allows every content.
C16_InvalidPatternsSkipped ==
    /\ Len(tw_patterns) = Cardinality(Compiling)
    /\ \A i \in Compiling :
          tw_patterns[Cardinality({j \in Compiling : j <= i})] = tw_strings[i]
    /\ \A k \in 1..Len(tw_patterns) : RegexCompiles(tw_patterns[k])
    /\ (Compiling = {} /\ tw_ncalls > 0) => tw_ret = Allow

\* the invalid string is skipped, the two valid ones keep their order, and
\* the handler halts on the first of them
C16_Witness ==
    /\ tw_strings = <<S_rm, S_invalid, S_r>>
    /\ tw_patterns = <<S_rm, S_r>>
    /\ tw_content = S_rm
    /\ tw_ret = Halt([handler |-> "tripwire", pattern |-> S_rm])

\* C26: no intercept call changes the handler: the active patterns are at
\* every moment the ones the handler was constructed with, so the verdict of
\* a call is the one a first call on a new handler would return for its
\* content, whatever calls came before it and whatever its context, and two
\* calls with the same content return the same verdict.
C26_InterceptKeepsNothing ==
    /\ tw_patterns = from_strings(tw_strings)
    /\ \A e \in tw_log :
          e.ret = TripwireIntercept(from_strings(tw_strings), e.content,
                                    InterventionContext("Inbound", None, None))
    /\ \A e1, e2 \in tw_log : e1.content = e2.content => e1.ret = e2.ret

\* two calls with the same content on a handler with two patterns, the second
\* in another direction: the log holds one entry, so both were halted alike
C26_Witness ==
    /\ tw_ncalls = 2
    /\ tw_patterns = <<S_rm, S_HI>>
    /\ tw_content = S_rm
    /\ tw_ctx.direction = "ToolResult"
    /\ tw_ret = Halt([handler |-> "tripwire", pattern |-> S_rm])
    /\ tw_log = {[content |-> S_rm, ret |-> tw_ret]}

\* ------------------------------------------------------------------------
\* A chain run repeatedly
\* ------------------------------------------------------------------------
\* the chains that are run: a counter alone, a detector behind a modifying
\* handler, and the four built-in handlers together
RunChains ==
    {<<SingleActionHandler(U32(1))>>,
     <<UpperH, ConvergenceDetector(Ratio(1, 2))>>,
     <<TripwireHandler(from_strings(<<S_invalid, S_rm>>)),
       SingleActionHandler(U32(1)), DepthGuardHandler,
       ConvergenceDetector(Ratio(7, 10))>>}

\* the run that has returned, if it began on a new chain or after the resets
Noted ==
    IF pc = "done" /\ clean
    THEN {[content |-> content, ctx |-> ctx, result |-> result]}
    ELSE {}

\* process(c, x), on the chain as the call before left it
RunBegin(c, x) ==
    /\ nprocess < MaxRuns
    /\ Enter(c, x)
    /\ runs' = runs \cup Noted
    /\ clean' = (pc = "idle")

\* between two runs the caller calls reset() on every stateful handler
ResetAll ==
    /\ pc = "done"
    /\ hstate' = [k \in 1..Len(handlers) |-> ResetState(handlers[k], hstate[k])]
    /\ runs' = runs \cup Noted
    /\ pc' = "idle"
    /\ content' = <<>>
    /\ ctx' = InterventionContext("Inbound", None, None)
    /\ current' = <<>>
    /\ idx' = 1
    /\ result' = NoResult
    /\ invoked' = <<>>
    /\ hstate0' = <<>>
    /\ tracelog' = <<>>
    /\ UNCHANGED <<handlers, nprocess, clean, chainOnly>>

RunBeginAny == \E c \in Contents, x \in Contexts : RunBegin(c, x)

RunInit ==
    /\ \E hs \in RunChains : ChainWith(hs)
    /\ overflow_checks = TRUE
    /\ HandlersInit
    /\ agents = <<>>
    /\ NoRuns
    /\ track_order = FALSE
    /\ JacIdle

RunNext ==
    \/ RunBeginAny
    \/ ProcessStep
    \/ ProcessReturn
    \/ ResetAll

SpecRuns == RunInit /\ [][RunNext]_vars

\* C17: two runs of a chain on the same content and context, each begun on
\* the chain as constructed or right after reset() of every stateful handler,
\* return the same verdict.
C17_SameVerdictAfterReset ==
    \A r1, r2 \in runs \cup Noted :
        (r1.content = r2.content /\ r1.ctx = r2.ctx) => r1.result = r2.result

\* a tool invocation allowed by the counter, the resets, and the same
\* invocation allowed again (without the resets it is dropped)
C17_Witness ==
    /\ pc = "done"
    /\ clean
    /\ nprocess = 2
    /\ \E k \in 1..Len(handlers) :
          /\ handlers[k].name = "single-action"
          /\ hstate[k].calls_this_turn = handlers[k].max_per_turn
    /\ ctx.direction = "ToolInvocation"
    /\ result = Allow
    /\ [content |-> content, ctx |-> ctx, result |-> result] \in runs

\* ------------------------------------------------------------------------
\* jaccard_trigrams as a function of two strings
\* ------------------------------------------------------------------------
\* the word alphabet: a word of one atom and a word of two
JacWords == {<<"x">>, <<"y", "z">>}

WordLists == SeqsUpTo(JacWords, MaxWords)

\* the words written one after the other with sep in between
RECURSIVE Written(_, _)
Written(words, sep) ==
    IF words = <<>> THEN <<>>
    ELSE IF Len(words) = 1 THEN words[1]
    ELSE words[1] \o sep \o Written(Tail(words), sep)

\* the words separated by one space, by a newline and a space, or by one
\* space with whitespace before the first and after the last
Texts(words) ==
    {Written(words, <<" ">>),
     Written(words, <<"\n", " ">>),
     <<"\t">> \o Written(words, <<" ">>) \o <<" ">>}

\* what the calls of jaccard_trigrams leave alone
jacFrame ==
    <<overflow_checks, track_order, chainVars, saVars, agents, convVars, twVars,
      runVars>>

\* jaccard_trigrams(a, b), and the same call once more
JacCompare ==
    /\ jout.again = None
    /\ jout' = IF jout.ab = None
               THEN [jout EXCEPT !.ab = Some(jaccard_trigrams(jin.a, jin.b)),
                                 !.taken = Some(jaccard_return(jin.a, jin.b))]
               ELSE [jout EXCEPT !.again = Some(jaccard_trigrams(jin.a, jin.b))]
    /\ UNCHANGED <<jin, jacFrame>>

\* jaccard_trigrams(b, a)
JacSwapped ==
    /\ jout.ba = None
    /\ jout' = [jout EXCEPT !.ba = Some(jaccard_trigrams(jin.b, jin.a))]
    /\ UNCHANGED <<jin, jacFrame>>

\* jaccard_trigrams(a, a)
JacSelf ==
    /\ jout.aa = None
    /\ jout' = [jout EXCEPT !.aa = Some(jaccard_trigrams(jin.a, jin.a))]
    /\ UNCHANGED <<jin, jacFrame>>

JacNext ==
    \/ JacCompare
    \/ JacSwapped
    \/ JacSelf

\* any two lists of up to MaxWords words; a is any text of the first, b the
\* second with single spaces
JacInit ==
    /\ ChainInit
    /\ overflow_checks = TRUE
    /\ HandlersInit
    /\ agents = <<>>
    /\ NoRuns
    /\ track_order = FALSE
    /\ \E a_words \in WordLists, b_words \in WordLists :
          \E a \in Texts(a_words) :
              JacWith(a_words, b_words, a, Written(b_words, <<" ">>))

SpecJaccard == JacInit /\ [][JacNext]_vars

RatioEq(x, y) == RatioGe(x, y) /\ RatioGe(y, x)

\* the similarities returned so far
JacReturned ==
    {r.value : r \in {q \in {jout.ab, jout.again, jout.ba, jout.aa} : q.some}}

\* C24: the similarity of a and b is that of b and a, it lies in [0, 1]
\* (the intersection is not larger than the union), the similarity of a
\* string with itself is 1, and a repeated call returns the same value.
C24_SymmetricBoundedReflexive ==
    /\ (jout.ab.some /\ jout.ba.some) => jout.ab.value = jout.ba.value
    /\ \A r \in JacReturned :
          /\ r.den >= 1
          /\ 0 <= r.num
          /\ r.num <= r.den
    /\ jout.aa.some => RatioEq(jout.aa.value, Ratio(1, 1))
    /\ (jout.ab.some /\ jout.again.some) => jout.again.value = jout.ab.value

\* two different strings that are half alike, compared both ways, again,
\* and the first with itself
C24_Witness ==
    /\ jin.a # jin.b
    /\ jout.ab.some
    /\ jout.again.some
    /\ jout.ba.some
    /\ jout.aa.some
    /\ RatioEq(jout.ab.value, Ratio(1, 2))
    /\ RatioEq(jout.ba.value, Ratio(1, 2))

\* the comparison set of a string, from the words it was written from: the
\* words when there are fewer than 3, else the runs of 3 consecutive words
ComparisonSet(words) ==
    IF Len(words) < 3
    THEN {<<words[k]>> : k \in 1..Len(words)}
    ELSE {SubSeq(words, k, k + 2) : k \in 1..(Len(words) - 2)}

\* C25: the similarity is |A \cap B| / |A \cup B| for the comparison sets A
\* and B of the two strings, 1 when both sets are empty and 0 when exactly
\* one is; no call leaves by the `return 0.0` of the union == 0 guard.
C25_JaccardOfComparisonSets ==
    jout.ab.some =>
        LET A == ComparisonSet(jin.a_words)
            B == ComparisonSet(jin.b_words)
        IN  /\ (A = {} /\ B = {}) => jout.ab.value = Ratio(1, 1)
            /\ ((A = {}) # (B = {})) => RatioEq(jout.ab.value, Ratio(0, 1))
            /\ ~(A = {} /\ B = {}) =>
                  jout.ab.value = Ratio(Cardinality(A \cap B), Cardinality(A \cup B))
            /\ jout.taken # Some("union_zero")

\* two words on two lines against the same two words followed by a third:
\* the words of the one are not among the three-word runs of the other
C25_Witness ==
    /\ jin.a_words = <<<<"x">>, <<"y", "z">>>>
    /\ jin.a = <<"x", "\n", " ", "y", "z">>
    /\ jin.b_words = <<<<"x">>, <<"y", "z">>, <<"x">>>>
    /\ jout.ab = Some(Ratio(0, 3))
    /\ jout.taken = Some("division")

====
